---- MODULE Spec2Model ----
(***************************************************************************)
(* PaymentVerifierAI: the evidence matching engine and the retrying inbox  *)
(* scan of payment_verifier.py, over the Gmail collaborator of             *)
(* gmail_client.py.                                                        *)
(*                                                                         *)
(* Text is a sequence of one-character strings, so that the regular        *)
(* expressions of the source are modelled by the scans they perform.  The  *)
(* two characters U+00A0 and U+202F are written "NBSP" and "NNBSP".        *)
(* Amounts are integers counted in thousandths (50.0 is 50000): every      *)
(* token the amount grammar accepts has at most three decimals.            *)
(***************************************************************************)
EXTENDS Integers, Sequences, FiniteSets, TLC

\* Optional[T]: None is the empty sequence, a value v is <<v>>.
None == <<>>
Some(v) == <<v>>
IsNone(o) == o = <<>>
Val(o) == o[1]

\* ------------------------------------------------------------------ text

\* str.lower() of the letters.
LowerOf ==
    [A |-> "a", B |-> "b", C |-> "c", D |-> "d", E |-> "e", F |-> "f", G |-> "g",
     H |-> "h", I |-> "i", J |-> "j", K |-> "k", L |-> "l", M |-> "m", N |-> "n",
     O |-> "o", P |-> "p", Q |-> "q", R |-> "r", S |-> "s", T |-> "t", U |-> "u",
     V |-> "v", W |-> "w", X |-> "x", Y |-> "y", Z |-> "z"]

\* re.IGNORECASE: characters are compared after case folding.
Lower(c) == IF c \in DOMAIN LowerOf THEN LowerOf[c] ELSE c

LowerSeq(s) == [i \in 1..Len(s) |-> Lower(s[i])]

\* \d, and the value of a digit.
DigitOf ==
    ("0" :> 0) @@ ("1" :> 1) @@ ("2" :> 2) @@ ("3" :> 3) @@ ("4" :> 4) @@
    ("5" :> 5) @@ ("6" :> 6) @@ ("7" :> 7) @@ ("8" :> 8) @@ ("9" :> 9)

IsDigit(c) == c \in {"0", "1", "2", "3", "4", "5", "6", "7", "8", "9"}

DigitVal(c) == DigitOf[c]

\* \s of the re module, over the characters texts are written with.
IsSpace(c) == c \in {" ", "\n", "\t", "NBSP", "NNBSP"}

\* str.strip()
RECURSIVE LStrip(_)
LStrip(s) == IF s # <<>> /\ IsSpace(Head(s)) THEN LStrip(Tail(s)) ELSE s

RECURSIVE RStrip(_)
RStrip(s) ==
    IF s # <<>> /\ IsSpace(s[Len(s)]) THEN RStrip(SubSeq(s, 1, Len(s) - 1)) ELSE s

Strip(s) == LStrip(RStrip(s))

\* sep.join(parts)
RECURSIVE Join(_, _)
Join(sep, parts) ==
    IF parts = <<>> THEN <<>>
    ELSE IF Len(parts) = 1 THEN parts[1]
    ELSE parts[1] \o sep \o Join(sep, Tail(parts))

\* The literal `lit` stands in s at position i, ignoring case.
MatchesAt(s, i, lit) ==
    /\ i >= 1
    /\ i + Len(lit) - 1 <= Len(s)
    /\ \A j \in 1..Len(lit) : Lower(s[i + j - 1]) = Lower(lit[j])

\* re.search(re.escape(needle), hay, flags=re.IGNORECASE) finds a match.
SearchEscapedIgnoreCase(needle, hay) ==
    LET h == LowerSeq(hay)
        n == LowerSeq(needle)
    IN  \E i \in 1..(Len(h) - Len(n) + 1) : SubSeq(h, i, i + Len(n) - 1) = n

\* ------------------------------------------------------- _parse_amounts

HasDigits(s, i, n) ==
    /\ i + n - 1 <= Len(s)
    /\ \A k \in 0..(n - 1) : IsDigit(s[i + k])

\* \d{1,3}, greedy: the position after the leading digits taken at i.
LeadEnd(s, i) ==
    IF HasDigits(s, i, 3) THEN i + 3
    ELSE IF HasDigits(s, i, 2) THEN i + 2
    ELSE i + 1

\* (?:[\s.,]\d{3})*, greedy: the position after the last group from i.
RECURSIVE GroupsEnd(_, _)
GroupsEnd(s, i) ==
    IF i <= Len(s) /\ (IsSpace(s[i]) \/ s[i] \in {".", ","}) /\ HasDigits(s, i + 1, 3)
    THEN GroupsEnd(s, i + 4)
    ELSE i

\* (?:[.,]\d{1,2})?, greedy: the position after the fraction from i.
FractionEnd(s, i) ==
    IF i <= Len(s) /\ s[i] \in {".", ","} /\ HasDigits(s, i + 1, 1)
    THEN IF HasDigits(s, i + 1, 2) THEN i + 3 ELSE i + 2
    ELSE i

\* group(1) of a match starting at i ends before TokenEnd(s, i).
TokenEnd(s, i) == FractionEnd(s, GroupsEnd(s, LeadEnd(s, i)))

RECURSIVE SkipSpaces(_, _)
SkipSpaces(s, i) == IF i <= Len(s) /\ IsSpace(s[i]) THEN SkipSpaces(s, i + 1) ELSE i

\* (?:\s*(?:FCFA|XOF))?: the position after the currency marker from i.
CurrencyEnd(s, i) ==
    LET j == SkipSpaces(s, i)
    IN  IF MatchesAt(s, j, <<"F", "C", "F", "A">>) THEN j + 4
        ELSE IF MatchesAt(s, j, <<"X", "O", "F">>) THEN j + 3
        ELSE i

\* (?<!\d)\d: a match can start at i.
CanStartAt(s, i) == IsDigit(s[i]) /\ (i = 1 \/ ~IsDigit(s[i - 1]))

\* token.replace(" ", "").replace(" ", "").replace(",", ".")
NormalizeToken(tok) ==
    LET kept == SelectSeq(tok, LAMBDA c : c \notin {" ", "NNBSP"})
    IN  [i \in 1..Len(kept) |-> IF kept[i] = "," THEN "." ELSE kept[i]]

RECURSIVE DigitsValue(_)
DigitsValue(ds) ==
    IF ds = <<>> THEN 0
    ELSE 10 * DigitsValue(SubSeq(ds, 1, Len(ds) - 1)) + DigitVal(ds[Len(ds)])

Pow10(n) == IF n = 0 THEN 1 ELSE IF n = 1 THEN 10 ELSE IF n = 2 THEN 100 ELSE 1000

\* float(token): None where float raises ValueError, else Some(the value
\* in thousandths).
FloatOf(tok) ==
    LET dots == {i \in 1..Len(tok) : tok[i] = "."}
    IN  IF \E i \in 1..Len(tok) : ~IsDigit(tok[i]) /\ tok[i] # "." THEN None
        ELSE IF Cardinality(dots) > 1 THEN None
        ELSE IF dots = {} THEN Some(1000 * DigitsValue(tok))
        ELSE LET d == CHOOSE i \in dots : TRUE
                 frac == SubSeq(tok, d + 1, Len(tok))
             IN  Some(1000 * DigitsValue(SubSeq(tok, 1, d - 1))
                        + DigitsValue(frac) * Pow10(3 - Len(frac)))

\* re.finditer over clean, from position i on.
RECURSIVE FindAmounts(_, _)
FindAmounts(s, i) ==
    IF i > Len(s) THEN <<>>
    ELSE IF ~CanStartAt(s, i) THEN FindAmounts(s, i + 1)
    ELSE LET e == TokenEnd(s, i)
             v == FloatOf(NormalizeToken(SubSeq(s, i, e - 1)))
             rest == FindAmounts(s, CurrencyEnd(s, e))
         IN  IF IsNone(v) THEN rest ELSE <<Val(v)>> \o rest

parse_amounts(text) ==
    LET clean == [i \in 1..Len(text) |-> IF text[i] = "NBSP" THEN " " ELSE text[i]]
    IN  FindAmounts(clean, 1)

\* -------------------------------------------------------- gmail_client

\* A node of a message's payload tree.  data is the decoded text of
\* body["data"] (None: the key is absent); filename is "" when absent.
Node(mime, data, filename, attachmentId, parts) ==
    [mimeType |-> mime, data |-> data, filename |-> filename,
     attachmentId |-> attachmentId, parts |-> parts]

\* The loop of _walk_parts: the stack is popped from its end, and the
\* children of the popped node are pushed in their order.
RECURSIVE WalkStack(_)
WalkStack(stack) ==
    IF stack = <<>> THEN <<>>
    ELSE LET node == stack[Len(stack)]
             rest == SubSeq(stack, 1, Len(stack) - 1)
         IN  <<[mimeType |-> node.mimeType, data |-> node.data,
                filename |-> node.filename, attachmentId |-> node.attachmentId]>>
               \o WalkStack(rest \o node.parts)

\* payload is None for a message without payload ({} is skipped).
walk_parts(payload) == IF IsNone(payload) THEN <<>> ELSE WalkStack(<<Val(payload)>>)

\* The position of the first ">" of s at or after i, 0 if there is none.
RECURSIVE FirstClose(_, _)
FirstClose(s, i) ==
    IF i > Len(s) THEN 0 ELSE IF s[i] = ">" THEN i ELSE FirstClose(s, i + 1)

\* re.sub(r"<[^>]+>", " ", html), from position i on.
RECURSIVE StripTagsFrom(_, _)
StripTagsFrom(s, i) ==
    IF i > Len(s) THEN <<>>
    ELSE LET j == FirstClose(s, i + 1)
         IN  IF s[i] = "<" /\ j >= i + 2
             THEN <<" ">> \o StripTagsFrom(s, j + 1)
             ELSE <<s[i]>> \o StripTagsFrom(s, i + 1)

StripTags(html) == StripTagsFrom(html, 1)

IsTextPart(part) == part.mimeType \in {"text/plain", "text/html"} /\ ~IsNone(part.data)

\* The parts extract_text_and_attachments downloads from the collaborator.
IsAttachmentPart(part) ==
    ~IsTextPart(part) /\ part.filename # "" /\ ~IsNone(part.attachmentId)

PartText(part) ==
    IF part.mimeType = "text/plain" THEN Val(part.data) ELSE StripTags(Val(part.data))

RECURSIVE AllText(_)
AllText(parts) ==
    IF parts = <<>> THEN <<>>
    ELSE IF IsTextPart(Head(parts)) THEN <<PartText(Head(parts))>> \o AllText(Tail(parts))
    ELSE AllText(Tail(parts))

\* The text extract_text_and_attachments returns.
extract_text(message) ==
    Strip(Join(<<"\n", "\n">>, AllText(walk_parts(message.payload))))

\* The number of attachment downloads extract_text_and_attachments makes.
AttachmentFetches(message) ==
    Len(SelectSeq(walk_parts(message.payload), IsAttachmentPart))

\* payload with the headers key set: the Subject header of the message.
WithSubject(node, subject) ==
    [mimeType |-> node.mimeType, data |-> node.data, filename |-> node.filename,
     attachmentId |-> node.attachmentId, parts |-> node.parts,
     headers |-> <<[name |-> <<"S", "u", "b", "j", "e", "c", "t">>, value |-> subject]>>]

\* message.get("payload", {}).get("headers", [])
HeadersOf(message) ==
    IF IsNone(message.payload) THEN <<>>
    ELSE IF "headers" \in DOMAIN Val(message.payload) THEN Val(message.payload).headers
    ELSE <<>>

\* GmailClient._get_header: the value of the first header of that name,
\* names compared in lower case; None when there is none.
RECURSIVE get_header(_, _)
get_header(headers, name) ==
    IF headers = <<>> THEN None
    ELSE IF LowerSeq(Head(headers).name) = LowerSeq(name) THEN Some(Head(headers).value)
    ELSE get_header(Tail(headers), name)

\* GmailClient.get_subject_from_message: the header, or "".
get_subject_from_message(message) ==
    LET h == get_header(HeadersOf(message), <<"S", "u", "b", "j", "e", "c", "t">>)
    IN  IF IsNone(h) THEN <<>> ELSE Val(h)

\* The mime types and the file names of the corpus for which
\* mime.startswith("image/") or filename.lower().endswith((".png", ".jpg",
\* ".jpeg")) holds.
ImageMimes == {"image/png", "image/jpeg"}
ImageFilenames == {"r.png"}

\* The downloaded parts extract_evidence_from_email hands to the OCR.
IsImagePart(part) ==
    /\ IsAttachmentPart(part)
    /\ (part.mimeType \in ImageMimes \/ part.filename \in ImageFilenames)

ImageAttachments(message) ==
    Len(SelectSeq(walk_parts(message.payload), IsImagePart))

\* ----------------------------------------------------- payment_verifier

Abs(x) == IF x < 0 THEN -x ELSE x
Max(a, b) == IF a >= b THEN a ELSE b
Min(a, b) == IF a <= b THEN a ELSE b

\* Evidence.  tx_id and user_hint are Optional[str], amount Optional[float].
Evidence(user_hint, amount, tx_id) ==
    [user_hint |-> user_hint, amount |-> amount, tx_id |-> tx_id]

\* `if s:` on an Optional[str]
Truthy(s) == ~IsNone(s) /\ Val(s) # <<>>

\* a, b: Optional amounts; pct: amount_tolerance_pct.
\* abs(a - b) <= (pct / 100.0) * max(a, b), both sides scaled by 100.
within_amount_tolerance(a, b, pct) ==
    IF IsNone(a) \/ IsNone(b) THEN FALSE
    ELSE Abs(Val(a) - Val(b)) * 100 <= pct * Max(Val(a), Val(b))

MsPerHour == 3600000

\* Mutant of within_time_window: the bound is exclusive.
within_time_window_exclusive(msg_internal_date_ms, clock, hours) ==
    msg_internal_date_ms > clock - hours * MsPerHour

\* dt >= now - timedelta(hours=time_window_hours), in milliseconds.
within_time_window(msg_internal_date_ms, clock, hours) ==
    msg_internal_date_ms >= clock - hours * MsPerHour

\* message.get("snippet", "")
SnippetOf(message) == IF IsNone(message.snippet) THEN <<>> ELSE Val(message.snippet)

\* f"{snippet}\n{payload_text}"
ContentOf(message) == SnippetOf(message) \o <<"\n">> \o extract_text(message)

RECURSIVE AnyWithin(_, _, _)
AnyWithin(amounts, claimed, pct) ==
    IF amounts = <<>> THEN FALSE
    ELSE IF within_amount_tolerance(Some(Head(amounts)), claimed, pct) THEN TRUE
    ELSE AnyWithin(Tail(amounts), claimed, pct)

\* Mutant of message_matches: an identifier that is given decides alone.
message_matches_tx_decides(message, evidence, pct) ==
    LET snippet == SnippetOf(message)
        content == ContentOf(message)
    IN  IF Truthy(evidence.tx_id)
        THEN IF SearchEscapedIgnoreCase(Val(evidence.tx_id), content)
             THEN <<TRUE, Some(snippet)>>
             ELSE <<FALSE, None>>
        ELSE IF ~IsNone(evidence.amount)
                /\ AnyWithin(parse_amounts(content), evidence.amount, pct)
        THEN <<TRUE, Some(snippet)>>
        ELSE IF Truthy(evidence.user_hint)
                /\ SearchEscapedIgnoreCase(Val(evidence.user_hint), content)
        THEN <<TRUE, Some(snippet)>>
        ELSE <<FALSE, None>>

\* (matched, snippet) of _message_matches once the payload is extracted.
message_matches(message, evidence, pct) ==
    LET snippet == SnippetOf(message)
        content == ContentOf(message)
    IN  IF Truthy(evidence.tx_id) /\ SearchEscapedIgnoreCase(Val(evidence.tx_id), content)
        THEN <<TRUE, Some(snippet)>>
        ELSE IF ~IsNone(evidence.amount)
                /\ AnyWithin(parse_amounts(content), evidence.amount, pct)
        THEN <<TRUE, Some(snippet)>>
        ELSE IF Truthy(evidence.user_hint)
                /\ SearchEscapedIgnoreCase(Val(evidence.user_hint), content)
        THEN <<TRUE, Some(snippet)>>
        ELSE <<FALSE, None>>

\* [A-Z0-9] under re.IGNORECASE, and \w
IsAlnum(c) == IsDigit(c) \/ c \in DOMAIN LowerOf \/ \E u \in DOMAIN LowerOf : LowerOf[u] = c

IsWordChar(c) == IsAlnum(c) \/ c = "_"

\* The end (exclusive) of the run of word characters of s that starts at i.
RECURSIVE WordEnd(_, _)
WordEnd(s, i) ==
    IF i <= Len(s) /\ IsWordChar(s[i]) THEN WordEnd(s, i + 1) ELSE i

\* \b at both ends of s[i..j-1], whose first and last characters are word
\* characters.
WordBounded(s, i, j) ==
    /\ (i = 1 \/ ~IsWordChar(s[i - 1]))
    /\ (j > Len(s) \/ ~IsWordChar(s[j]))

\* _parse_tx_ids(text)[0]: the first match of \b([A-Z0-9]{6,20})\b from
\* position i on, None when there is none.  A match is a whole run of word
\* characters, all of them letters or digits, 6 to 20 long.
RECURSIVE FirstTxId(_, _)
FirstTxId(s, i) ==
    IF i > Len(s) THEN None
    ELSE IF ~IsWordChar(s[i]) THEN FirstTxId(s, i + 1)
    ELSE LET e == WordEnd(s, i)
         IN  IF /\ e - i >= 6
                /\ e - i <= 20
                /\ \A k \in i..(e - 1) : IsAlnum(s[k])
             THEN Some(SubSeq(s, i, e - 1))
             ELSE FirstTxId(s, e)

\* re.search(r"\bword\b", text, flags=re.IGNORECASE) finds a match.
SearchWord(word, s) ==
    \E i \in 1..(Len(s) - Len(word) + 1) :
        MatchesAt(s, i, word) /\ WordBounded(s, i, i + Len(word))

\* _parse_choice
parse_choice(text) ==
    IF SearchWord(<<"v", "a", "l", "i", "d", "e", "r">>, text) THEN Some("valider")
    ELSE IF SearchWord(<<"r", "e", "f", "u", "s", "e", "r">>, text) THEN Some("refuser")
    ELSE None

\* [:\s-]
IsHintSep(c) == c = ":" \/ c = "-" \/ IsSpace(c)

RECURSIVE HintSepEnd(_, _)
HintSepEnd(s, i) ==
    IF i <= Len(s) /\ IsHintSep(s[i]) THEN HintSepEnd(s, i + 1) ELSE i

\* The end (exclusive) of the run of \S that starts at i.
RECURSIVE NonSpaceEnd(_, _)
NonSpaceEnd(s, i) ==
    IF i <= Len(s) /\ ~IsSpace(s[i]) THEN NonSpaceEnd(s, i + 1) ELSE i

\* (?:user|utilisateur|id) at position i: the position after the keyword,
\* 0 when none of the three stands there.
HintKeywordEnd(s, i) ==
    IF MatchesAt(s, i, <<"u", "s", "e", "r">>) THEN i + 4
    ELSE IF MatchesAt(s, i, <<"u", "t", "i", "l", "i", "s", "a", "t", "e", "u", "r">>)
    THEN i + 11
    ELSE IF MatchesAt(s, i, <<"i", "d">>) THEN i + 2
    ELSE 0

\* [:\s-]+(\S{2,}) from position j on: the separators are taken greedily and
\* given back one by one until two characters of \S follow.  The set of the
\* positions where the group can start.
HintGroupStarts(s, j) ==
    {k \in (j + 1)..HintSepEnd(s, j) : NonSpaceEnd(s, k) - k >= 2}

\* re.search(r"(?:user|utilisateur|id)[:\s-]+(\S{2,})", full_text,
\* flags=re.IGNORECASE) from position i on: group(1), None without a match.
RECURSIVE FindUserHint(_, _)
FindUserHint(s, i) ==
    IF i > Len(s) THEN None
    ELSE LET j == HintKeywordEnd(s, i)
             starts == IF j = 0 THEN {} ELSE HintGroupStarts(s, j)
         IN  IF starts = {} THEN FindUserHint(s, i + 1)
             ELSE LET k == CHOOSE x \in starts : \A y \in starts : y <= x
                  IN  Some(SubSeq(s, k, NonSpaceEnd(s, k) - 1))

\* extract_evidence_from_email: the Evidence and its choice.  ocr_texts are
\* the non-empty texts the OCR gave for the image attachments.
extract_evidence_from_email(subject, body_text, ocr_texts) ==
    LET full_text == Join(<<"\n", "\n">>, <<subject, body_text>> \o ocr_texts)
        amounts == parse_amounts(full_text)
    IN  [evidence |-> Evidence(FindUserHint(full_text, 1),
                               IF amounts = <<>> THEN None ELSE Some(amounts[1]),
                               FirstTxId(full_text, 1)),
         choice |-> parse_choice(full_text)]

\* ------------------------------------------------------------- the model

\* Bounds of the model.
MaxMailbox == 2
MaxCalls == 2

\* Mutant of StopAfterAttempt: one attempt too many.
StopAfterAttemptPlusOne == 3 + 1

\* @retry(stop=stop_after_attempt(3), wait=wait_exponential(multiplier=1, min=1, max=8))
StopAfterAttempt == 3
WaitMultiplier == 1
WaitMin == 1
WaitMax == 8
MsPerSecond == 1000

\* max_results=50 in verify_against_inbox
ListMaxResults == 50

\* The clock when the model starts, in milliseconds.
Now0 == 2 * MsPerHour + 10 * MsPerSecond

\* A message as messages().get(format="full") returns it; stub is the id the
\* listing gives for it.  id, internalDate and snippet are None when the
\* response lacks the key.
Message(stub, id, internalDate, snippet, payload) ==
    [stub |-> stub, id |-> id, internalDate |-> internalDate,
     snippet |-> snippet, payload |-> payload]

Leaf(mime, data, filename, attachmentId) == Node(mime, data, filename, attachmentId, <<>>)

\* "Paid 50,00 FCFA" / "ref ab12cd34", exactly one hour old at Now0.
Msg1 ==
    Message("m1", Some("m1"), Some(Now0 - MsPerHour),
            Some(<<"P", "a", "i", "d", " ", "5", "0", ",", "0", "0", " ", "F", "C", "F", "A">>),
            Some(Leaf("text/plain",
                      Some(<<"r", "e", "f", " ", "a", "b", "1", "2", "c", "d", "3", "4">>),
                      "", None)))

\* An empty snippet, an HTML part "<b>TX AB12CD34</b>" and an image
\* attachment; one millisecond more than an hour old at Now0.
Msg2 ==
    Message("m2", Some("m2"), Some(Now0 - MsPerHour - 1), Some(<<>>),
            Some(Node("multipart/mixed", None, "", None,
                      <<Leaf("text/html",
                             Some(<<"<", "b", ">", "T", "X", " ", "A", "B", "1", "2",
                                    "C", "D", "3", "4", "<", "/", "b", ">">>),
                             "", None),
                        Leaf("image/png", None, "r.png", Some("a1"))>>)))

\* No id and no snippet in the response; "user: alice 1.000"; recent.
Msg3 ==
    Message("m3", None, Some(Now0 - MsPerSecond), None,
            Some(Leaf("text/plain",
                      Some(<<"u", "s", "e", "r", ":", " ", "a", "l", "i", "c", "e", " ",
                             "1", ".", "0", "0", "0">>),
                      "", None)))

\* "hello", no payload and no internalDate.
Msg4 ==
    Message("m4", Some("m4"), None, Some(<<"h", "e", "l", "l", "o">>), None)

Corpus == {Msg1, Msg2, Msg3, Msg4}

RECURSIVE SeqsUpTo(_, _)
SeqsUpTo(S, n) ==
    IF n = 0 THEN {<<>>}
    ELSE LET shorter == SeqsUpTo(S, n - 1)
         IN  shorter \cup {Append(q, x) : q \in shorter, x \in S}

CorpusIds == {m.stub : m \in Corpus}

\* A claim email: Subject "Re", "ZZ999999 valider" as snippet and as body;
\* recent.
Msg5 ==
    Message("m5", Some("m5"), Some(Now0 - MsPerSecond),
            Some(<<"Z", "Z", "9", "9", "9", "9", "9", "9", " ",
                   "v", "a", "l", "i", "d", "e", "r">>),
            Some(WithSubject(Leaf("text/plain",
                                  Some(<<"Z", "Z", "9", "9", "9", "9", "9", "9", " ",
                                         "v", "a", "l", "i", "d", "e", "r">>),
                                  "", None),
                             <<"R", "e">>)))

\* The messages the collaborator stores.
Inbox == Corpus \cup {Msg5}

\* The message the collaborator stores under an id.
Stored(id) == CHOOSE m \in Inbox : m.stub = id

\* The mailboxes: the ids of the messages the watch query selects, in the
\* order the collaborator lists them; a message is listed once.
Mailboxes ==
    {q \in SeqsUpTo(CorpusIds, MaxMailbox) :
        \A i, j \in 1..Len(q) : i # j => q[i] # q[j]}

\* The mailboxes of the periodic job: claim emails are among the messages
\* the watch query selects.
JobMailboxes ==
    {q \in SeqsUpTo({m.stub : m \in Inbox}, MaxMailbox) :
        \A i, j \in 1..Len(q) : i # j => q[i] # q[j]}

\* What ocr_image_bytes gives for an image: a text, or "" (an OCR that
\* raises is logged and adds no text either).
OcrOutcomes == {<<>>, <<"r", "e", "f", "u", "s", "e", "r">>}

Evidences ==
    { Evidence(None, None, Some(<<"A", "B", "1", "2", "C", "D", "3", "4">>)),
      Evidence(Some(<<"b", "o", "b">>), Some(52000),
               Some(<<"Z", "Z", "9", "9", "9", "9", "9", "9">>)),
      Evidence(Some(<<"a", "l", "i", "c", "e">>), None, Some(<<>>)) }

\* config.json: verification.time_window_hours, verification.amount_tolerance_pct
\* and max_results (None: the key is not set).
Configs ==
    { [time_window_hours |-> 1, amount_tolerance_pct |-> 1, max_results |-> Some(1)],
      [time_window_hours |-> 2, amount_tolerance_pct |-> 5, max_results |-> None] }

VARIABLES
    mailbox,      \* the remote mailbox: the ids the watch query selects
    evidence,     \* the Evidence of the calls
    config,       \* the configuration
    now,          \* the clock, in milliseconds
    pc,           \* where the running call stands
    caller,       \* "verify_endpoint" or "decide_and_reply"
    calls,        \* calls started so far
    attempt,      \* the attempt number of the retry policy
    messages,     \* the stubs the listing returned to this attempt
    idx,          \* the position of the scan in messages
    msg,          \* the message fetched for the candidate under inspection
    match,        \* (matched, snippet) of the latest _message_matches call
    ops,          \* the collaborator and engine steps of the latest attempt
    attempts,     \* the finished attempts of this call
    result,       \* the VerificationResult decide_and_reply holds
    outcome,      \* what the finished call gave its caller
    sends,        \* notification sends attempted by this call
    send_status,  \* what the latest send did
    returned,     \* results of the calls that ran at the present clock reading
    clock_moved,  \* the clock moved during this call
    job           \* the run of job_check_inbox: position, listing, source message

vars ==
    <<mailbox, evidence, config, now, pc, caller, calls, attempt, messages,
      idx, msg, match, ops, attempts, result, outcome, sends, send_status, returned, clock_moved,
      job>>

VerificationResult(decision, reason, matched_message_id, matched_snippet) ==
    [decision |-> decision, reason |-> reason,
     matched_message_id |-> matched_message_id, matched_snippet |-> matched_snippet]

\* An exception: its type, and the attempt that raised it.
Exc(type, n) == [type |-> type, attempt |-> n, last_attempt |-> None]

\* tenacity.RetryError(last_attempt): raised when the stop condition holds
\* and reraise is not set.
RetryError(exc) ==
    [type |-> "RetryError", attempt |-> 0, last_attempt |-> Some(exc)]

Op(op, id, ok) == [op |-> op, id |-> id, ok |-> ok]

\* What is kept of a finished attempt: its first step, whether a request to
\* the collaborator failed in it, and how it ended.
Attempt(steps, exc, r) ==
    [first |-> steps[1].op, failed |-> \E i \in 1..Len(steps) : ~steps[i].ok,
     exc |-> exc, result |-> r]

NoOutcome == [kind |-> "none", result |-> None, error |-> None]

\* job_check_inbox is not running.
JobOff == [pc |-> "off", msgs |-> <<>>, idx |-> 1, source |-> None]

Init ==
    /\ mailbox \in Mailboxes
    /\ evidence \in Evidences
    /\ config \in Configs
    /\ now = Now0
    /\ pc = "idle"
    /\ caller = ""
    /\ calls = 0
    /\ attempt = 0
    /\ messages = <<>>
    /\ idx = 1
    /\ msg = None
    /\ match = None
    /\ ops = <<>>
    /\ attempts = <<>>
    /\ result = None
    /\ outcome = NoOutcome
    /\ sends = 0
    /\ send_status = ""
    /\ returned = {}
    /\ clock_moved = FALSE
    /\ job = JobOff

\* The caller enters verify_against_inbox: attempt 1 of the retry policy.
BeginCall(c) ==
    /\ pc = "idle"
    /\ calls < MaxCalls
    /\ calls' = calls + 1
    /\ caller' = c
    /\ attempt' = 1
    /\ pc' = "list"
    /\ messages' = <<>>
    /\ idx' = 1
    /\ msg' = None
    /\ match' = None
    /\ ops' = <<>>
    /\ attempts' = <<>>
    /\ result' = None
    /\ outcome' = NoOutcome
    /\ sends' = 0
    /\ send_status' = ""
    /\ clock_moved' = FALSE
    /\ UNCHANGED <<mailbox, job, evidence, config, now, returned>>

\* POST /verify
VerifyEndpoint == BeginCall("verify_endpoint")

\* decide_and_reply, up to its call of verify_against_inbox
DecideAndReply == BeginCall("decide_and_reply")

\* The attempt raises exc out of verify_against_inbox.
Raise(failed, exc) ==
    /\ ops' = Append(ops, failed)
    /\ attempts' = Append(attempts, Attempt(ops', Some(exc), None))
    /\ pc' = "raised"
    /\ UNCHANGED <<mailbox, job, evidence, config, now, caller, calls, attempt,
                   messages, idx, msg, result, outcome, sends, send_status, returned, clock_moved>>

\* The attempt returns r: the retry policy hands it to the caller.
Return(last, r) ==
    /\ ops' = Append(ops, last)
    /\ attempts' = Append(attempts, Attempt(ops', None, Some(r)))
    /\ returned' = IF clock_moved THEN returned ELSE returned \cup {r}
    /\ IF caller = "verify_endpoint"
       THEN /\ pc' = "idle"
            /\ outcome' = [kind |-> "result", result |-> Some(r), error |-> None]
            /\ result' = result
       ELSE /\ pc' = "send"
            /\ outcome' = outcome
            /\ result' = Some(r)
    /\ UNCHANGED <<mailbox, job, evidence, config, now, caller, calls, attempt,
                   messages, idx, msg, sends, send_status, clock_moved>>

\* The stubs messages().list(maxResults=max_results) answers with.
ListResponse(box, max_results) ==
    [i \in 1..Min(Len(box), max_results) |-> [id |-> box[i]]]

\* GmailClient.list_messages; out is what the request does.
list_messages(box, max_results, out) ==
    IF out = "HttpError" THEN <<>> ELSE ListResponse(box, max_results)

\* messages = self.gmail.list_messages(query=query, max_results=50)
ListMessages ==
    /\ pc = "list"
    /\ UNCHANGED match
    /\ \E out \in {"ok", "HttpError", "TransportError"} :
        IF out = "TransportError"
        THEN Raise(Op("list", "", FALSE), Exc("TransportError", attempt))
        ELSE /\ messages' = list_messages(mailbox, ListMaxResults, out)
             /\ idx' = 1
             /\ pc' = "scan"
             /\ ops' = Append(ops, Op("list", "", out = "ok"))
             /\ UNCHANGED <<mailbox, job, evidence, config, now, caller, calls,
                            attempt, msg, attempts, result, outcome, sends,
                            send_status, returned, clock_moved>>

\* GmailClient.get_message
get_message(box, id) == Stored(CHOOSE x \in {box[i] : i \in 1..Len(box)} : x = id)

\* msg = self.gmail.get_message(m["id"])
GetMessage ==
    /\ pc = "scan"
    /\ idx <= Len(messages)
    /\ UNCHANGED match
    /\ \E out \in {"ok", "HttpError"} :
        IF out = "HttpError"
        THEN Raise(Op("get", messages[idx].id, FALSE),
                   Exc("HttpError", attempt))
        ELSE /\ msg' = Some(get_message(mailbox, messages[idx].id))
             /\ pc' = "inspect"
             /\ ops' = Append(ops, Op("get", messages[idx].id, TRUE))
             /\ UNCHANGED <<mailbox, job, evidence, config, now, caller, calls,
                            attempt, messages, idx, attempts, result, outcome, sends,
                            send_status, returned, clock_moved>>

\* int(msg.get("internalDate", 0))
InternalDateOf(message) ==
    IF IsNone(message.internalDate) THEN 0 ELSE Val(message.internalDate)

\* Mutant of Continue: the loop steps over the next candidate.
ContinueSkipsNext(last) ==
    /\ idx' = idx + 2
    /\ msg' = None
    /\ pc' = "scan"
    /\ ops' = Append(ops, last)
    /\ UNCHANGED <<mailbox, job, evidence, config, now, caller, calls, attempt,
                   messages, attempts, result, outcome, sends, send_status, returned, clock_moved>>

\* The loop goes on with the next candidate.
Continue(last) ==
    /\ idx' = idx + 1
    /\ msg' = None
    /\ pc' = "scan"
    /\ ops' = Append(ops, last)
    /\ UNCHANGED <<mailbox, job, evidence, config, now, caller, calls, attempt,
                   messages, attempts, result, outcome, sends, send_status, returned, clock_moved>>

Valider(message, snippet) ==
    VerificationResult("VALIDER", "Correspondance trouvee dans Gmail",
                       message.id, snippet)

Refuser ==
    VerificationResult("REFUSER",
                       "Aucune preuve correspondante dans la fenetre temporelle",
                       None, None)

\* The body of the loop of verify_against_inbox after the fetch: the time
\* window, then _message_matches, whose payload extraction downloads the
\* attachments (message["id"] is read for each download).
InspectCandidate ==
    /\ pc = "inspect"
    /\ LET m == Val(msg)
           id == messages[idx].id
       IN  IF ~within_time_window(InternalDateOf(m), now, config.time_window_hours)
           THEN Continue(Op("skip", id, TRUE)) /\ UNCHANGED match
           ELSE IF AttachmentFetches(m) > 0 /\ IsNone(m.id)
           THEN /\ Raise(Op("attachment", id, FALSE),
                         Exc("KeyError", attempt))
                /\ UNCHANGED match
           ELSE \E out \in {"ok", "HttpError"} :
                IF out = "HttpError"
                THEN /\ AttachmentFetches(m) > 0
                     /\ Raise(Op("attachment", id, FALSE),
                              Exc("HttpError", attempt))
                     /\ UNCHANGED match
                ELSE LET r == message_matches(m, evidence, config.amount_tolerance_pct)
                     IN  /\ match' = Some(r)
                         /\ IF r[1]
                            THEN Return(Op("match", id, TRUE), Valider(m, r[2]))
                            ELSE Continue(Op("match", id, TRUE))

\* The loop ends without a match.
ScanExhausted ==
    /\ pc = "scan"
    /\ idx > Len(messages)
    /\ Return(Op("end", "", TRUE), Refuser)
    /\ UNCHANGED match

\* wait_exponential(multiplier=1, min=1, max=8) after attempt n, in seconds.
RECURSIVE Pow2(_)
Pow2(n) == IF n = 0 THEN 1 ELSE 2 * Pow2(n - 1)

wait_exponential(n) == Max(WaitMin, Min(WaitMultiplier * Pow2(n - 1), WaitMax))

\* The retry policy after a raising attempt: sleep, then run again.
Retry ==
    /\ pc = "raised"
    /\ attempt < StopAfterAttempt
    /\ now' = now + wait_exponential(attempt) * MsPerSecond
    /\ clock_moved' = TRUE
    /\ attempt' = attempt + 1
    /\ pc' = "list"
    /\ messages' = <<>>
    /\ idx' = 1
    /\ msg' = None
    /\ match' = None
    /\ ops' = <<>>
    /\ returned' = {}
    /\ UNCHANGED <<mailbox, job, evidence, config, caller, calls, attempts,
                   result, outcome, sends, send_status>>

\* What the retry policy raises to the caller once the attempts are used up.
GiveUpError(last) == RetryError(last)

\* stop_after_attempt(3): the caller gets the error; decide_and_reply lets
\* it through.
GiveUp ==
    /\ pc = "raised"
    /\ attempt >= StopAfterAttempt
    /\ outcome' = [kind |-> "error", result |-> None,
                   error |-> Some(GiveUpError(Val(attempts[Len(attempts)].exc)))]
    /\ pc' = "idle"
    /\ UNCHANGED <<mailbox, job, evidence, config, now, caller, calls, attempt,
                   messages, idx, msg, match, ops, attempts, result, sends,
                   send_status, returned, clock_moved>>

\* Mutant of ReplyOutcome: a failing send is not caught.
ReplyOutcomeSendRaises(r, out) ==
    IF out = "ok" THEN [kind |-> "result", result |-> r, error |-> None]
    ELSE [kind |-> "error", result |-> None, error |-> Some(Exc(out, 0))]

\* What decide_and_reply gives its caller after the send did `out`.
ReplyOutcome(r, out) == [kind |-> "result", result |-> r, error |-> None]

\* decide_and_reply after verify_against_inbox returned: compose, send,
\* log a failing send, return the result.
SendReply ==
    /\ pc = "send"
    /\ \E out \in {"ok", "HttpError", "TransportError"} :
        /\ sends' = sends + 1
        /\ send_status' = out
        /\ outcome' = ReplyOutcome(result, out)
        /\ pc' = "idle"
    /\ UNCHANGED <<mailbox, job, evidence, config, now, caller, calls, attempt,
                   messages, idx, msg, match, ops, attempts, result, returned, clock_moved>>

\* ------------------------------------------------------ job_check_inbox

\* msgs = verifier.gmail.list_messages(query=query, max_results=10)
JobMaxResults == 10

JobInit ==
    /\ mailbox \in JobMailboxes
    /\ evidence = Evidence(None, None, None)
    /\ config \in Configs
    /\ now = Now0
    /\ pc = "idle"
    /\ caller = ""
    /\ calls = 0
    /\ attempt = 0
    /\ messages = <<>>
    /\ idx = 1
    /\ msg = None
    /\ match = None
    /\ ops = <<>>
    /\ attempts = <<>>
    /\ result = None
    /\ outcome = NoOutcome
    /\ sends = 0
    /\ send_status = ""
    /\ returned = {}
    /\ clock_moved = FALSE
    /\ job = JobOff

\* except Exception: the job logs and ends.
JobFailed == [job EXCEPT !.pc = "done", !.source = None]

\* for m in msgs: the loop goes on with the next message, or ends.
JobAdvance ==
    [job EXCEPT !.pc = IF job.idx + 1 > Len(job.msgs) THEN "done" ELSE "loop",
                !.idx = job.idx + 1,
                !.source = None]

\* job_check_inbox up to its loop: the listing.
JobCheckInbox ==
    /\ job.pc = "off"
    /\ pc = "idle"
    /\ \E out \in {"ok", "HttpError", "TransportError"} :
        job' = IF out = "TransportError" THEN JobFailed
               ELSE LET msgs == list_messages(mailbox, JobMaxResults, out)
                    IN  [pc |-> IF msgs = <<>> THEN "done" ELSE "loop",
                         msgs |-> msgs, idx |-> 1, source |-> None]
    /\ UNCHANGED <<mailbox, evidence, config, now, pc, caller, calls, attempt,
                   messages, idx, msg, match, ops, attempts, result, outcome,
                   sends, send_status, returned, clock_moved>>

\* The OCR texts of extract_evidence_from_email: one per image attachment,
\* empty ones left out (every image of a message gets the same outcome).
OcrTexts(message, ocr) ==
    IF ocr = <<>> THEN <<>> ELSE [i \in 1..ImageAttachments(message) |-> ocr]

\* The body of the loop of job_check_inbox: fetch the message, extract its
\* text and attachments, extract the Evidence, and enter decide_and_reply when
\* the Evidence has a choice.
JobProcess ==
    /\ job.pc = "loop"
    /\ pc = "idle"
    /\ \E out \in {"ok", "HttpError"}, ocr \in OcrOutcomes :
        LET m == get_message(mailbox, job.msgs[job.idx].id)
            e == extract_evidence_from_email(get_subject_from_message(m),
                                             extract_text(m), OcrTexts(m, ocr))
        IN  IF \/ out = "HttpError"
               \/ (AttachmentFetches(m) > 0 /\ IsNone(m.id))
            THEN /\ job' = JobFailed
                 /\ UNCHANGED <<mailbox, evidence, config, now, pc, caller, calls,
                                attempt, messages, idx, msg, match, ops, attempts,
                                result, outcome, sends, send_status, returned,
                                clock_moved>>
            ELSE IF IsNone(e.choice)
            THEN /\ job' = JobAdvance
                 /\ UNCHANGED <<mailbox, evidence, config, now, pc, caller, calls,
                                attempt, messages, idx, msg, match, ops, attempts,
                                result, outcome, sends, send_status, returned,
                                clock_moved>>
            ELSE /\ job' = [job EXCEPT !.pc = "call", !.source = Some(m)]
                 /\ evidence' = e.evidence
                 /\ calls' = calls + 1
                 /\ caller' = "decide_and_reply"
                 /\ attempt' = 1
                 /\ pc' = "list"
                 /\ messages' = <<>>
                 /\ idx' = 1
                 /\ msg' = None
                 /\ match' = None
                 /\ ops' = <<>>
                 /\ attempts' = <<>>
                 /\ result' = None
                 /\ outcome' = NoOutcome
                 /\ sends' = 0
                 /\ send_status' = ""
                 /\ clock_moved' = FALSE
                 /\ UNCHANGED <<mailbox, config, now, returned>>

\* decide_and_reply is over: the loop goes on after a result, the job ends
\* on an exception.
JobResume ==
    /\ job.pc = "call"
    /\ pc = "idle"
    /\ outcome.kind # "none"
    /\ job' = IF outcome.kind = "error" THEN JobFailed ELSE JobAdvance
    /\ UNCHANGED <<mailbox, evidence, config, now, pc, caller, calls, attempt,
                   messages, idx, msg, match, ops, attempts, result, outcome,
                   sends, send_status, returned, clock_moved>>

JobNext ==
    \/ JobCheckInbox
    \/ JobProcess
    \/ JobResume
    \/ ListMessages
    \/ GetMessage
    \/ InspectCandidate
    \/ ScanExhausted
    \/ Retry
    \/ GiveUp
    \/ SendReply

JobSpec == JobInit /\ [][JobNext]_vars

Next ==
    \/ VerifyEndpoint
    \/ DecideAndReply
    \/ ListMessages
    \/ GetMessage
    \/ InspectCandidate
    \/ ScanExhausted
    \/ Retry
    \/ GiveUp
    \/ SendReply

Spec == Init /\ [][Next]_vars

\* ------------------------------------------------------------ properties

\* verify_against_inbox has returned a result in the running or latest call.
VerifyReturned == attempts # <<>> /\ ~IsNone(attempts[Len(attempts)].result)

VerifyResult == Val(attempts[Len(attempts)].result)

\* The call has ended and its caller holds the outcome.
CallEnded == pc = "idle" /\ outcome.kind # "none"

\* C1: a call in which every attempt met a failing collaborator request
\* (list, get or attachment download) ends with an error for the caller,
\* never with a VerificationResult.
C1_FailureNeverADecision ==
    (CallEnded /\ \A i \in 1..Len(attempts) : attempts[i].failed)
        => outcome.kind = "error"

\* C2: when the call ends with an error, exactly 3 attempts were made, each
\* started with the listing, and the error the caller gets is the exception
\* the third attempt raised.
C2_LastExceptionSurfaces ==
    (CallEnded /\ outcome.kind = "error")
        => /\ Len(attempts) = 3
           /\ \A i \in 1..3 : attempts[i].first = "list"
           /\ outcome.error = attempts[3].exc

\* C3: once an attempt completes without raising, no further attempt is
\* made and its result is the one handed on: attempts 1..k-1 raised, k <= 3,
\* exactly k attempts were made, and the caller gets attempt k's result.
C3_FirstCompletedAttemptReturned ==
    VerifyReturned
        => /\ Len(attempts) = attempt
           /\ attempt <= 3
           /\ \A i \in 1..(Len(attempts) - 1) :
                 IsNone(attempts[i].result) /\ ~IsNone(attempts[i].exc)
           /\ \A i \in 1..Len(attempts) : attempts[i].first = "list"
           /\ pc \in {"send", "idle"}
           /\ pc = "send" => result = Some(VerifyResult)
           /\ CallEnded => outcome = [kind |-> "result", result |-> Some(VerifyResult),
                                      error |-> None]

\* Attempts 1 and 2 raised and attempt 3 gave the result the caller holds.
C3_Witness ==
    /\ CallEnded
    /\ Len(attempts) = 3
    /\ ~IsNone(attempts[3].result)
    /\ outcome.result = attempts[3].result
    /\ Val(outcome.result).decision = "VALIDER"

\* The ids of the candidates fetched by the latest attempt, in order.
Fetched ==
    LET gets == SelectSeq(ops, LAMBDA o : o.op = "get")
    IN  [i \in 1..Len(gets) |-> gets[i].id]

Listed == [i \in 1..Len(messages) |-> messages[i].id]

\* Candidate i of the listing lies in the time window and corroborates
\* the evidence.
Hit(i) ==
    LET m == get_message(mailbox, Listed[i])
    IN  /\ InternalDateOf(m) + config.time_window_hours * MsPerHour >= now
        /\ message_matches(m, evidence, config.amount_tolerance_pct)[1]

Hits == {i \in 1..Len(Listed) : Hit(i)}

Least(S) == CHOOSE i \in S : \A j \in S : i <= j

\* C4: in an attempt that returned, the candidates were fetched in listing
\* order; with no admitted and matching candidate all of them were fetched
\* and the result is REFUSER; otherwise the result is VALIDER with the id
\* and snippet of the first such candidate, and nothing after it was fetched.
C4_FirstMatchInListingOrder ==
    VerifyReturned
        => LET hits == Hits
               fetched == Fetched
               r == VerifyResult
           IN  /\ fetched = SubSeq(Listed, 1, Len(fetched))
               /\ (r.decision = "REFUSER") <=> (hits = {})
               /\ hits = {} => fetched = Listed /\ r = Refuser
               /\ hits # {} =>
                    LET first == Least(hits)
                        m == get_message(mailbox, Listed[first])
                    IN  /\ r.decision = "VALIDER"
                        /\ r.matched_message_id = m.id
                        /\ r.matched_snippet = Some(SnippetOf(m))
                        /\ fetched = SubSeq(Listed, 1, first)

\* Two listed candidates are both admitted and matching: the result names
\* the first, and the second was never fetched.
C4_Witness ==
    /\ VerifyReturned
    /\ Len(Listed) = 2
    /\ Cardinality(Hits) = 2
    /\ Fetched = <<Listed[1]>>
    /\ VerifyResult.decision = "VALIDER"
    /\ VerifyResult.matched_message_id = Some(Listed[1])

IdPopulated(o) == ~IsNone(o) /\ Val(o) # ""

SnippetPopulated(o) == ~IsNone(o) /\ Val(o) # <<>>

\* C5: in every VerificationResult, matched_message_id and matched_snippet
\* are populated if and only if the decision is VALIDER.
C5_MatchFieldsIffValider ==
    VerifyReturned
        => /\ IdPopulated(VerifyResult.matched_message_id)
                <=> (VerifyResult.decision = "VALIDER")
           /\ SnippetPopulated(VerifyResult.matched_snippet)
                <=> (VerifyResult.decision = "VALIDER")

\* C6: a fetched candidate goes on to the matching engine if and only if
\* its timestamp is at least now minus time_window_hours; one that is older
\* is skipped, and is never the matched message of a VALIDER result.
C6_TimeWindowInclusive ==
    \A i \in 1..Len(ops) :
        LET o == ops[i]
            cutoff == now - config.time_window_hours * MsPerHour
        IN  /\ o.op = "skip" => InternalDateOf(get_message(mailbox, o.id)) < cutoff
            /\ o.op \in {"match", "attachment"}
                  => InternalDateOf(get_message(mailbox, o.id)) >= cutoff

\* A candidate exactly time_window_hours old was matched, after one a
\* millisecond older was skipped.
C6_Witness ==
    /\ VerifyReturned
    /\ VerifyResult.decision = "VALIDER"
    /\ \E i, j \in 1..Len(ops) :
          /\ ops[i].op = "skip"
          /\ InternalDateOf(get_message(mailbox, ops[i].id))
                = now - config.time_window_hours * MsPerHour - 1
          /\ ops[j].op = "match"
          /\ j = Len(ops)
          /\ InternalDateOf(get_message(mailbox, ops[j].id))
                = now - config.time_window_hours * MsPerHour

\* The candidate the latest _message_matches call looked at.
MatchedAgainst == get_message(mailbox, ops[Len(ops)].id)

MatchJustRan == ~IsNone(match) /\ ops # <<>> /\ ops[Len(ops)].op = "match"

TxIdFound(content, e) ==
    Truthy(e.tx_id) /\ SearchEscapedIgnoreCase(Val(e.tx_id), content)

AmountFound(content, e, pct) ==
    /\ ~IsNone(e.amount)
    /\ LET amounts == parse_amounts(content)
           b == Val(e.amount)
       IN  \E i \in 1..Len(amounts) :
              Abs(amounts[i] - b) * 100 <= pct * Max(amounts[i], b)

HintFound(content, e) ==
    Truthy(e.user_hint) /\ SearchEscapedIgnoreCase(Val(e.user_hint), content)

\* C7: _message_matches reports a match, with the candidate's snippet, if
\* and only if the identifier is given and found, or the amount is given
\* and some parsed amount is within tolerance, or the hint is given and
\* found; otherwise it reports no match and no snippet.
C7_MatchIffSomeCheckSucceeds ==
    MatchJustRan
        => LET m == MatchedAgainst
               content == ContentOf(m)
               found == \/ TxIdFound(content, evidence)
                        \/ AmountFound(content, evidence, config.amount_tolerance_pct)
                        \/ HintFound(content, evidence)
           IN  Val(match) = IF found THEN <<TRUE, Some(SnippetOf(m))>>
                                     ELSE <<FALSE, None>>

\* An identifier that is given and not found, an amount within tolerance.
C7_Witness ==
    /\ MatchJustRan
    /\ Truthy(evidence.tx_id)
    /\ ~TxIdFound(ContentOf(MatchedAgainst), evidence)
    /\ AmountFound(ContentOf(MatchedAgainst), evidence, config.amount_tolerance_pct)
    /\ ~HintFound(ContentOf(MatchedAgainst), evidence)
    /\ Val(match)[1]

\* C8: decide_and_reply sends once, after verification has produced its
\* result, and returns exactly that result whether the send succeeds or
\* fails; without a result nothing is sent.
C8_SendFailureKeepsResult ==
    /\ sends <= 1
    /\ sends = 1 => VerifyReturned /\ caller = "decide_and_reply"
    /\ (CallEnded /\ caller = "decide_and_reply" /\ VerifyReturned)
          => /\ sends = 1
             /\ outcome = [kind |-> "result", result |-> Some(VerifyResult),
                           error |-> None]
    /\ (CallEnded /\ outcome.kind = "error") => sends = 0

\* The send failed and the caller still got the VALIDER result.
C8_Witness ==
    /\ CallEnded
    /\ caller = "decide_and_reply"
    /\ send_status = "HttpError"
    /\ outcome.kind = "result"
    /\ Val(outcome.result).decision = "VALIDER"

\* C9: two calls that ran at the same clock reading, on the same mailbox,
\* evidence and configuration, returned the same VerificationResult.
C9_SameInputsSameResult ==
    \A r1, r2 \in returned : r1 = r2

\* max_results of the configuration, 50 when the key is not set.
ConfiguredMaxResults ==
    IF IsNone(config.max_results) THEN ListMaxResults ELSE Val(config.max_results)

\* C10: an attempt fetches at most the configured max_results candidates.
C10_FetchesWithinConfiguredMax == Len(Fetched) <= ConfiguredMaxResults

\* The source message of the running decide_and_reply of the job.
JobSource == Val(job.source)

\* verify_against_inbox has returned VALIDER to the decide_and_reply the job
\* entered for its source message.
JobValider ==
    /\ job.pc = "call"
    /\ VerifyReturned
    /\ VerifyResult.decision = "VALIDER"

\* C11: in the periodic job, a claim email never corroborates itself: the
\* matched_message_id of a VALIDER decision is never the id of the message
\* the Evidence was extracted from.
C11_ClaimNeverCorroboratesItself ==
    JobValider => VerifyResult.matched_message_id # JobSource.id

====
